---- MODULE Spec2Model ----
(***************************************************************************)
(* A2Z Flashing transaction-file converter (src/app.py, process_file).     *)
(*                                                                         *)
(* Python strings are modelled as sequences of one-character strings, so   *)
(* that lower(), strip(), replace(), float(), strptime() and the f-string  *)
(* formatting are computed character by character.  A table cell is a      *)
(* record [na, text]: na is pandas' missing marker (NaN/None/NaT), text is *)
(* str() of a present value.                                               *)
(***************************************************************************)
EXTENDS Integers, Sequences, FiniteSets, TLC

VARIABLES
    pc,             \* position of the Streamlit script: "idle", "uploaded", "done"
    uploaded_file,  \* st.file_uploader's value: [name, columns, rows]
    processed_df,   \* what process_file returned and reported
    padYear,        \* platform: does strftime("%Y") zero-pad years below 1000
    amountVal,      \* format_amount driver: the raw amount cell
    balance,        \* format_amount(amountVal)
    balance2,       \* format_amount applied to its own output
    txType,         \* determine_transaction_type(balance)
    dateVal,        \* format_date driver: the raw date cell
    docDate         \* format_date(dateVal)

vars == <<pc, uploaded_file, processed_df, padYear, amountVal, balance,
          balance2, txType, dateVal, docDate>>

(***************************************************************************)
(* Bounds of the model.                                                    *)
(***************************************************************************)
MaxRows == 2
MaxAmountLen == 3

(***************************************************************************)
(* Characters and Python str methods.                                      *)
(***************************************************************************)
DigitChars == <<"0", "1", "2", "3", "4", "5", "6", "7", "8", "9">>

UpperChars == <<"A", "B", "C", "D", "E", "F", "G", "H", "I", "J", "K", "L", "M",
                "N", "O", "P", "Q", "R", "S", "T", "U", "V", "W", "X", "Y", "Z">>

LowerChars == <<"a", "b", "c", "d", "e", "f", "g", "h", "i", "j", "k", "l", "m",
                "n", "o", "p", "q", "r", "s", "t", "u", "v", "w", "x", "y", "z">>

Whitespace == {" ", "\t"}

IsDigit(c) == \E i \in 1..10 : DigitChars[i] = c

DigitVal(c) == (CHOOSE i \in 1..10 : DigitChars[i] = c) - 1

DigitChar(d) == DigitChars[d + 1]

LowerChar(c) ==
    IF \E i \in 1..26 : UpperChars[i] = c
    THEN LowerChars[CHOOSE i \in 1..26 : UpperChars[i] = c]
    ELSE c

\* str.lower()
Lower(t) == [i \in 1..Len(t) |-> LowerChar(t[i])]

RECURSIVE LStrip(_)
LStrip(t) == IF t /= <<>> /\ Head(t) \in Whitespace THEN LStrip(Tail(t)) ELSE t

RECURSIVE RStrip(_)
RStrip(t) ==
    IF t /= <<>> /\ t[Len(t)] \in Whitespace
    THEN RStrip(SubSeq(t, 1, Len(t) - 1))
    ELSE t

\* str.strip()
Strip(t) == RStrip(LStrip(t))

\* str.replace(c, "") for a one-character c
Remove(t, c) == SelectSeq(t, LAMBDA x : x /= c)

\* str.endswith(suffix)
EndsWith(t, suffix) ==
    /\ Len(suffix) <= Len(t)
    /\ SubSeq(t, Len(t) - Len(suffix) + 1, Len(t)) = suffix

\* index of the first character of t that is in S, 0 when there is none
IndexOf(t, S) ==
    IF \E i \in 1..Len(t) : t[i] \in S
    THEN CHOOSE i \in 1..Len(t) : t[i] \in S /\ \A j \in 1..(i - 1) : t[j] \notin S
    ELSE 0

AllDigits(t) == \A i \in 1..Len(t) : IsDigit(t[i])

RECURSIVE ToNat(_)
ToNat(t) == IF t = <<>> THEN 0 ELSE 10 * ToNat(SubSeq(t, 1, Len(t) - 1)) + DigitVal(t[Len(t)])

(***************************************************************************)
(* Cells.                                                                  *)
(***************************************************************************)
\* pandas' NaT, and a calendar date
NaT == [year |-> 0, month |-> 0, day |-> 0]

Date(y, m, d) == [year |-> y, month |-> m, day |-> d]

\* parsed is what pd.to_datetime(cell, dayfirst=True, errors="coerce") gives for
\* the cell: pandas is outside the repository, so its answer is an input.
NaN == [na |-> TRUE, text |-> <<>>, parsed |-> NaT]

Txt(t) == [na |-> FALSE, text |-> t, parsed |-> NaT]

TxtParsed(t, d) == [na |-> FALSE, text |-> t, parsed |-> d]

\* pd.isna / pd.notna on a scalar cell
IsNa(val) == val.na

\* str(val): a missing float prints as "nan"
Str(val) == IF val.na THEN <<"n", "a", "n">> ELSE val.text

(***************************************************************************)
(* float(): Python's float-literal grammar on the stripped text.  The      *)
(* result keeps the decimal digits and the position of the decimal point   *)
(* (the value is 0.d1d2... * 10^point), which is exact for the values of   *)
(* fewer than 16 significant digits that the model feeds it.               *)
(***************************************************************************)
MaxDecimalExponent == 309

FloatError == [kind |-> "error", neg |-> FALSE, digits |-> <<>>, point |-> 0]

HasSign(t) == t /= <<>> /\ t[1] \in {"+", "-"}

Unsigned(t) == IF HasSign(t) THEN Tail(t) ELSE t

IsZeroDigits(d) == \A i \in 1..Len(d) : d[i] = 0

LeadingZeros(d) ==
    IF IsZeroDigits(d) THEN Len(d)
    ELSE (CHOOSE i \in 1..Len(d) : d[i] /= 0 /\ \A j \in 1..(i - 1) : d[j] = 0) - 1

ParseFloat(text) ==
    LET t    == Strip(text)
        neg  == HasSign(t) /\ t[1] = "-"
        body == Unsigned(t)
        low  == Lower(body)
        ePos == IndexOf(body, {"e", "E"})
        mant == IF ePos = 0 THEN body ELSE SubSeq(body, 1, ePos - 1)
        expT == IF ePos = 0 THEN <<>> ELSE SubSeq(body, ePos + 1, Len(body))
        dPos == IndexOf(mant, {"."})
        ipT  == IF dPos = 0 THEN mant ELSE SubSeq(mant, 1, dPos - 1)
        fpT  == IF dPos = 0 THEN <<>> ELSE SubSeq(mant, dPos + 1, Len(mant))
        expOk == ePos = 0 \/ (Unsigned(expT) /= <<>> /\ AllDigits(Unsigned(expT)))
        mantOk == AllDigits(ipT) /\ AllDigits(fpT) /\ Len(ipT) + Len(fpT) >= 1
    IN  IF low = <<"n", "a", "n">>
        THEN [kind |-> "nan", neg |-> neg, digits |-> <<>>, point |-> 0]
        ELSE IF low = <<"i", "n", "f">> \/ low = <<"i", "n", "f", "i", "n", "i", "t", "y">>
        THEN [kind |-> "inf", neg |-> neg, digits |-> <<>>, point |-> 0]
        ELSE IF ~(expOk /\ mantOk)
        THEN FloatError
        ELSE LET e  == IF ePos = 0 THEN 0
                       ELSE IF HasSign(expT) /\ expT[1] = "-"
                            THEN 0 - ToNat(Unsigned(expT))
                            ELSE ToNat(Unsigned(expT))
                 ds == [i \in 1..(Len(ipT) + Len(fpT)) |->
                           DigitVal((ipT \o fpT)[i])]
                 pt == IF IsZeroDigits(ds) THEN 0 ELSE Len(ipT) + e
             IN  IF ~IsZeroDigits(ds) /\ pt - LeadingZeros(ds) > MaxDecimalExponent
                 THEN [kind |-> "inf", neg |-> neg, digits |-> <<>>, point |-> 0]
                 ELSE [kind |-> "num", neg |-> neg, digits |-> ds, point |-> pt]

(***************************************************************************)
(* f"{x:.2f}": fixed-point formatting with two decimals, round-half-even   *)
(* on the digits (exact ties only arise for binary-representable values).  *)
(***************************************************************************)
\* the digit of weight 10^(-k): a decimal for k >= 1, a digit of the integer
\* part for k <= 0
DigitAt(f, k) ==
    IF f.point + k >= 1 /\ f.point + k <= Len(f.digits)
    THEN f.digits[f.point + k]
    ELSE 0

RECURSIVE Increment(_)
Increment(ds) ==
    IF ds = <<>> THEN <<1>>
    ELSE IF ds[Len(ds)] < 9
         THEN SubSeq(ds, 1, Len(ds) - 1) \o <<ds[Len(ds)] + 1>>
         ELSE Increment(SubSeq(ds, 1, Len(ds) - 1)) \o <<0>>

RECURSIVE DropLeadingZeros(_, _)
DropLeadingZeros(ds, keep) ==
    IF Len(ds) > keep /\ ds[1] = 0 THEN DropLeadingZeros(Tail(ds), keep) ELSE ds

Format2f(f) ==
    IF f.kind = "nan" THEN <<"n", "a", "n">>
    ELSE IF f.kind = "inf"
    THEN (IF f.neg THEN <<"-">> ELSE <<>>) \o <<"i", "n", "f">>
    ELSE LET nInt   == IF f.point > 0 THEN f.point ELSE 0
             whole  == [i \in 1..(nInt + 2) |-> DigitAt(f, i - nInt)]
             third  == DigitAt(f, 3)
             rest   == \E i \in 1..Len(f.digits) : i > f.point + 3 /\ f.digits[i] /= 0
             up     == \/ third > 5
                       \/ third = 5 /\ rest
                       \/ third = 5 /\ ~rest /\ DigitAt(f, 2) % 2 = 1
             padded == <<0>> \o (IF up THEN Increment(whole) ELSE whole)
             ds     == DropLeadingZeros(padded, 3)
             n      == Len(ds)
         IN  (IF f.neg THEN <<"-">> ELSE <<>>)
             \o [i \in 1..(n - 2) |-> DigitChar(ds[i])]
             \o <<".">>
             \o <<DigitChar(ds[n - 1]), DigitChar(ds[n])>>

(***************************************************************************)
(* 5. Amount -> Document Balance.                                          *)
(***************************************************************************)
ZeroBalance == <<"0", ".", "0", "0">>

format_amount(val) ==
    LET clean_val ==
            Strip(Remove(Remove(Remove(Remove(Str(val), "$"), ","), "£"), "€"))
    IN  IF clean_val = <<>> \/ Lower(clean_val) = <<"n", "a", "n">>
        THEN ZeroBalance
        ELSE IF ParseFloat(clean_val).kind = "error"
        THEN ZeroBalance
        ELSE Format2f(ParseFloat(clean_val))

(***************************************************************************)
(* 2. Transaction Type from the sign of the balance.                       *)
(***************************************************************************)
\* balance_val >= 0 on a Python float: every comparison with nan is False
GeZero(f) ==
    CASE f.kind = "nan" -> FALSE
      [] f.kind = "inf" -> ~f.neg
      [] OTHER          -> ~f.neg \/ IsZeroDigits(f.digits)

determine_transaction_type(balance_str) ==
    LET balance_val == ParseFloat(balance_str)
    IN  IF balance_val.kind = "error" THEN "INV"
        ELSE IF GeZero(balance_val) THEN "INV" ELSE "CRD"

(***************************************************************************)
(* 4. Date -> Document Date.  datetime.strptime is modelled directive by   *)
(* directive: each numeric directive takes the digit run at its position   *)
(* (every directive of the formats below is followed by a non-digit        *)
(* literal or by the end of the text, so the run is what the regular       *)
(* expression of _strptime can match), a blank in the format matches \s+.  *)
(***************************************************************************)
DateFormats == <<
    <<"%d", "/", "%m", "/", "%Y">>,
    <<"%Y", "-", "%m", "-", "%d">>,
    <<"%d", "-", "%m", "-", "%Y">>,
    <<"%m", "/", "%d", "/", "%Y">>,
    <<"%Y", "/", "%m", "/", "%d">>,
    <<"%d", "-", "%b", "-", "%Y">>,
    <<"%d", " ", "%b", " ", "%Y">>,
    <<"%Y", "-", "%m", "-", "%d", " ", "%H", ":", "%M", ":", "%S">>,
    <<"%d", "/", "%m", "/", "%Y", " ", "%H", ":", "%M", ":", "%S">> >>

MonthAbbr == << <<"j", "a", "n">>, <<"f", "e", "b">>, <<"m", "a", "r">>,
                <<"a", "p", "r">>, <<"m", "a", "y">>, <<"j", "u", "n">>,
                <<"j", "u", "l">>, <<"a", "u", "g">>, <<"s", "e", "p">>,
                <<"o", "c", "t">>, <<"n", "o", "v">>, <<"d", "e", "c">> >>

IsLeap(y) == (y % 4 = 0 /\ y % 100 /= 0) \/ y % 400 = 0

DaysInMonth(y, m) ==
    IF m = 2 THEN (IF IsLeap(y) THEN 29 ELSE 28)
    ELSE IF m \in {4, 6, 9, 11} THEN 30 ELSE 31

RECURSIVE DigitRun(_, _)
DigitRun(t, pos) ==
    IF pos <= Len(t) /\ IsDigit(t[pos]) THEN 1 + DigitRun(t, pos + 1) ELSE 0

RECURSIVE SpaceRun(_, _)
SpaceRun(t, pos) ==
    IF pos <= Len(t) /\ t[pos] \in Whitespace THEN 1 + SpaceRun(t, pos + 1) ELSE 0

Field(t, pos, n) == ToNat(SubSeq(t, pos, pos + n - 1))

NoMatch == [ok |-> FALSE, year |-> 0, month |-> 0, day |-> 0]

RECURSIVE MatchFormat(_, _, _, _, _)
MatchFormat(t, pos, fmt, k, acc) ==
    IF k > Len(fmt)
    THEN (IF pos = Len(t) + 1 THEN [acc EXCEPT !.ok = TRUE] ELSE NoMatch)
    ELSE LET tok == fmt[k]
             n   == DigitRun(t, pos)
         IN  CASE tok = "%d" ->
                    IF n \in {1, 2} /\ Field(t, pos, n) \in 1..31
                    THEN MatchFormat(t, pos + n, fmt, k + 1,
                                     [acc EXCEPT !.day = Field(t, pos, n)])
                    ELSE IF /\ pos <= Len(t) /\ t[pos] = " "
                            /\ DigitRun(t, pos + 1) = 1
                            /\ Field(t, pos + 1, 1) \in 1..9
                    THEN MatchFormat(t, pos + 2, fmt, k + 1,
                                     [acc EXCEPT !.day = Field(t, pos + 1, 1)])
                    ELSE NoMatch
               [] tok = "%m" ->
                    IF n \in {1, 2} /\ Field(t, pos, n) \in 1..12
                    THEN MatchFormat(t, pos + n, fmt, k + 1,
                                     [acc EXCEPT !.month = Field(t, pos, n)])
                    ELSE NoMatch
               [] tok = "%Y" ->
                    IF n = 4
                    THEN MatchFormat(t, pos + 4, fmt, k + 1,
                                     [acc EXCEPT !.year = Field(t, pos, 4)])
                    ELSE NoMatch
               [] tok = "%b" ->
                    IF /\ pos + 2 <= Len(t)
                       /\ \E i \in 1..12 : MonthAbbr[i] = Lower(SubSeq(t, pos, pos + 2))
                    THEN MatchFormat(t, pos + 3, fmt, k + 1,
                             [acc EXCEPT !.month = CHOOSE i \in 1..12 :
                                 MonthAbbr[i] = Lower(SubSeq(t, pos, pos + 2))])
                    ELSE NoMatch
               [] tok = "%H" ->
                    IF n \in {1, 2} /\ Field(t, pos, n) \in 0..23
                    THEN MatchFormat(t, pos + n, fmt, k + 1, acc)
                    ELSE NoMatch
               [] tok \in {"%M", "%S"} ->
                    IF n \in {1, 2} /\ Field(t, pos, n) \in 0..59
                    THEN MatchFormat(t, pos + n, fmt, k + 1, acc)
                    ELSE NoMatch
               [] tok = " " ->
                    IF SpaceRun(t, pos) >= 1
                    THEN MatchFormat(t, pos + SpaceRun(t, pos), fmt, k + 1, acc)
                    ELSE NoMatch
               [] OTHER ->
                    IF pos <= Len(t) /\ t[pos] = tok
                    THEN MatchFormat(t, pos + 1, fmt, k + 1, acc)
                    ELSE NoMatch

\* datetime.strptime(text, fmt): ok is FALSE where Python raises ValueError
strptime(text, fmt) ==
    LET m == MatchFormat(text, 1, fmt, 1, [ok |-> FALSE, year |-> 0, month |-> 1, day |-> 1])
    IN  IF m.ok /\ m.year >= 1 /\ m.day <= DaysInMonth(m.year, m.month)
        THEN m
        ELSE NoMatch

RECURSIVE NatDigits(_)
NatDigits(n) == IF n < 10 THEN <<DigitChar(n)>> ELSE NatDigits(n \div 10) \o <<DigitChar(n % 10)>>

Pad2(n) == <<DigitChar(n \div 10), DigitChar(n % 10)>>

Pad4(n) == <<DigitChar(n \div 1000), DigitChar((n \div 100) % 10),
             DigitChar((n \div 10) % 10), DigitChar(n % 10)>>

\* d.strftime("%d/%m/%Y"): the C library decides whether %Y pads a year below 1000
strftime(d) ==
    Pad2(d.day) \o <<"/">> \o Pad2(d.month) \o <<"/">>
    \o (IF padYear \/ d.year >= 1000 THEN Pad4(d.year) ELSE NatDigits(d.year))

\* the index of the first of the formats that parses the text, 0 when none does
FirstFormat(text) ==
    IF \E i \in 1..Len(DateFormats) : strptime(text, DateFormats[i]).ok
    THEN CHOOSE i \in 1..Len(DateFormats) :
            /\ strptime(text, DateFormats[i]).ok
            /\ \A j \in 1..(i - 1) : ~strptime(text, DateFormats[j]).ok
    ELSE 0

format_date(val) ==
    IF IsNa(val) \/ Strip(Str(val)) = <<>>
    THEN <<>>
    ELSE IF FirstFormat(Str(val)) /= 0
    THEN strftime(strptime(Str(val), DateFormats[FirstFormat(Str(val))]))
    ELSE IF val.parsed /= NaT
    THEN strftime(val.parsed)
    ELSE Str(val)

(***************************************************************************)
(* process_file.  A DataFrame is [columns, rows]: the header texts and the *)
(* rows, each a sequence of cells aligned with the headers.                *)
(***************************************************************************)
RequiredKeys == <<"customer", "order_number", "reference", "date", "amount">>

NoneCol == <<"None">>

OutputColumns == <<"Debtor Reference", "Transaction Type", "Document Number",
                   "Document Date", "Document Balance">>

ExtCsv == <<".", "c", "s", "v">>

ExtXls == <<".", "x", "l", "s">>

ExtXlsx == <<".", "x", "l", "s", "x">>

\* Reader as it would be with the case of the file name left alone
Reader_CaseSensitive(name) ==
    IF EndsWith(name, ExtCsv) THEN "read_csv"
    ELSE IF EndsWith(name, ExtXls) \/ EndsWith(name, ExtXlsx) THEN "read_excel"
    ELSE ""

\* the branch of the reader, "" where the extension is rejected
Reader(name) ==
    IF EndsWith(Lower(name), ExtCsv) THEN "read_csv"
    ELSE IF EndsWith(Lower(name), ExtXls) \/ EndsWith(Lower(name), ExtXlsx) THEN "read_excel"
    ELSE ""

\* df.empty
IsEmpty(df) == Len(df.rows) = 0 \/ Len(df.columns) = 0

\* MatchColumn as it would be if a key once bound were never bound again
MatchColumn_KeepFirst(required_cols, col) ==
    LET col_lower == Strip(Lower(col))
        key == IF col_lower = <<"c", "u", "s", "t", "o", "m", "e", "r">> THEN "customer"
               ELSE IF col_lower = <<"o", "r", "d", "e", "r", " ", "n", "b", "r", ".">> THEN "order_number"
               ELSE IF col_lower = <<"r", "e", "f", "e", "r", "e", "n", "c", "e", " ", "n", "b", "r", ".">> THEN "reference"
               ELSE IF col_lower = <<"d", "a", "t", "e">> THEN "date"
               ELSE IF col_lower = <<"a", "m", "o", "u", "n", "t">> THEN "amount"
               ELSE ""
    IN  IF key /= "" /\ required_cols[key] = NoneCol
        THEN [required_cols EXCEPT ![key] = col]
        ELSE required_cols

\* one turn of the loop over df.columns
MatchColumn(required_cols, col) ==
    LET col_lower == Strip(Lower(col))
    IN  IF col_lower = <<"c", "u", "s", "t", "o", "m", "e", "r">>
        THEN [required_cols EXCEPT !["customer"] = col]
        ELSE IF col_lower = <<"o", "r", "d", "e", "r", " ", "n", "b", "r", ".">>
        THEN [required_cols EXCEPT !["order_number"] = col]
        ELSE IF col_lower = <<"r", "e", "f", "e", "r", "e", "n", "c", "e", " ", "n", "b", "r", ".">>
        THEN [required_cols EXCEPT !["reference"] = col]
        ELSE IF col_lower = <<"d", "a", "t", "e">>
        THEN [required_cols EXCEPT !["date"] = col]
        ELSE IF col_lower = <<"a", "m", "o", "u", "n", "t">>
        THEN [required_cols EXCEPT !["amount"] = col]
        ELSE required_cols

RECURSIVE ScanColumns(_, _, _)
ScanColumns(columns, i, required_cols) ==
    IF i > Len(columns) THEN required_cols
    ELSE ScanColumns(columns, i + 1, MatchColumn(required_cols, columns[i]))

ResolveColumns(columns) ==
    ScanColumns(columns, 1, [k \in {RequiredKeys[i] : i \in 1..5} |-> NoneCol])

\* missing_cols as it would be if the check stopped at the first missing key
missing_cols_first(required_cols) ==
    LET all == SelectSeq(RequiredKeys, LAMBDA k : required_cols[k] = NoneCol)
    IN  IF all = <<>> THEN <<>> ELSE <<all[1]>>

missing_cols(required_cols) ==
    SelectSeq(RequiredKeys, LAMBDA k : required_cols[k] = NoneCol)

\* df[name]: the cells of the column with that header, by row
Column(df, name) ==
    LET j == CHOOSE j \in 1..Len(df.columns) : df.columns[j] = name
    IN  [i \in 1..Len(df.rows) |-> df.rows[i][j]]

\* create_document_number as it would be without the pd.notna tests
create_document_number_str(order_cell, reference_cell) ==
    <<"O", "_">> \o Str(order_cell) \o <<"_">> \o Str(reference_cell)

create_document_number(order_cell, reference_cell) ==
    LET order_num == IF ~IsNa(order_cell) THEN Str(order_cell) ELSE <<>>
        reference == IF ~IsNa(reference_cell) THEN Str(reference_cell) ELSE <<>>
    IN  <<"O", "_">> \o order_num \o <<"_">> \o reference

\* KeepRow as it would be without the tests on the stripped text
KeepRow_NotnaOnly(debtor, docnum) == ~IsNa(debtor)

\* the boolean mask of the row filter, for one row
KeepRow(debtor, docnum) ==
    /\ ~IsNa(debtor)
    /\ Strip(Str(debtor)) /= <<>>
    /\ Strip(docnum) /= <<>>      \* a document number is a str, never missing

\* KeptRows as it would be if the kept rows came out last first
KeptRows_Reversed(debtors, docnums) ==
    LET kept == SelectSeq([i \in 1..Len(debtors) |-> i],
                          LAMBDA i : ~IsNa(debtors[i]) /\ Strip(Str(debtors[i])) /= <<>>)
    IN  [i \in 1..Len(kept) |-> kept[Len(kept) + 1 - i]]

\* the positions (from 1) of the rows the mask keeps, in order
KeptRows(debtors, docnums) ==
    SelectSeq([i \in 1..Len(debtors) |-> i],
              LAMBDA i : KeepRow(debtors[i], docnums[i]))

\* output[[...]]: the columns in the order asked for
Reorder(frame, order) == [frame EXCEPT !.columns = order]

\* the frame once the five columns are assigned, in the order of assignment
BuildOutput(df, required_cols) ==
    LET debtor  == Column(df, required_cols["customer"])
        orders  == Column(df, required_cols["order_number"])
        refs    == Column(df, required_cols["reference"])
        dates   == Column(df, required_cols["date"])
        amounts == Column(df, required_cols["amount"])
        n       == Len(df.rows)
        docnum  == [i \in 1..n |-> create_document_number(orders[i], refs[i])]
        docdate == [i \in 1..n |-> format_date(dates[i])]
        docbal  == [i \in 1..n |-> format_amount(amounts[i])]
        txtype  == [i \in 1..n |-> determine_transaction_type(docbal[i])]
    IN  [columns |-> <<"Debtor Reference", "Document Number", "Document Date",
                       "Document Balance", "Transaction Type">>,
         index   |-> [i \in 1..n |-> i - 1],
         data    |-> [i \in 1..n |->
                        [c \in {OutputColumns[j] : j \in 1..5} |->
                            CASE c = "Debtor Reference" -> debtor[i]
                              [] c = "Transaction Type" -> txtype[i]
                              [] c = "Document Number"  -> docnum[i]
                              [] c = "Document Date"    -> docdate[i]
                              [] c = "Document Balance" -> docbal[i]]]]

\* output[mask].reset_index(drop=True)
FilterRows(frame) ==
    LET kept == KeptRows([i \in 1..Len(frame.data) |-> frame.data[i]["Debtor Reference"]],
                         [i \in 1..Len(frame.data) |-> frame.data[i]["Document Number"]])
    IN  [frame EXCEPT !.data  = [i \in 1..Len(kept) |-> frame.data[kept[i]]],
                      !.index = [i \in 1..Len(kept) |-> i - 1]]

NoFrame == [columns |-> <<>>, index |-> <<>>, data |-> <<>>]

\* what one call returns and reports: error is the st.error raised ("" for none),
\* steps the stages the call went through, frame the DataFrame returned
Failure(error, missing, steps) ==
    [returned |-> "None", error |-> error, missing |-> missing,
     steps |-> steps, frame |-> NoFrame]

process_file(file) ==
    IF Reader(file.name) = ""
    THEN Failure("UnsupportedFormat", <<>>, <<>>)
    ELSE IF IsEmpty(file.table)
    THEN Failure("EmptyInput", <<>>, <<Reader(file.name)>>)
    ELSE IF missing_cols(ResolveColumns(file.table.columns)) /= <<>>
    THEN Failure("MissingColumns", missing_cols(ResolveColumns(file.table.columns)),
                 <<Reader(file.name), "resolve">>)
    ELSE [returned |-> "DataFrame", error |-> "", missing |-> <<>>,
          steps |-> <<Reader(file.name), "resolve", "transform", "filter", "reorder">>,
          frame |-> Reorder(FilterRows(BuildOutput(file.table,
                                ResolveColumns(file.table.columns))),
                            OutputColumns)]

(***************************************************************************)
(* The inputs the model draws from.                                        *)
(***************************************************************************)
RECURSIVE TextsUpTo(_, _)
TextsUpTo(alphabet, n) ==
    IF n = 0 THEN {<<>>}
    ELSE LET shorter == TextsUpTo(alphabet, n - 1)
         IN  shorter \cup {Append(t, c) : t \in {u \in shorter : Len(u) = n - 1},
                                          c \in alphabet}

FileNames == {<<"a", ".", "c", "s", "v">>, <<"R", "E", "P", "O", "R", "T", ".", "C", "S", "V">>, <<"b", ".", "x", "l", "s", "x">>, <<"b", ".", "x", "l", "s">>, <<"c", ".", "t", "x", "t">>, <<"x", "c", "s", "v">>}

\* the headers a table may carry, and the layouts (sequences of header numbers)
Headers == <<<<"C", "u", "s", "t", "o", "m", "e", "r">>, <<"O", "r", "d", "e", "r", " ", "N", "b", "r", ".">>, <<"R", "e", "f", "e", "r", "e", "n", "c", "e", " ", "N", "b", "r", ".">>, <<"D", "a", "t", "e">>, <<"A", "m", "o", "u", "n", "t">>,
             <<"D", "A", "T", "E", " ">>, <<"N", "o", "t", "e", "s">>>>

RequiredLayout == <<1, 2, 3, 4, 5>>

Layouts ==
    {SelectSeq(RequiredLayout, LAMBDA h : h \in keep) : keep \in SUBSET (1..5)}
    \cup {<<1, 2, 3, 4, 5, 6>>, <<6, 1, 2, 3, 4, 5>>, <<1, 2, 3, 5, 6>>,
          <<7, 5, 4, 3, 2, 1>>}

\* the kinds of row: the cell under each of the headers
RowKinds == {
    <<Txt(<<"A", "c", "m", "e">>), Txt(<<"1", "0", "0">>), Txt(<<"R", "1">>), Txt(<<"0", "1", "/", "0", "2", "/", "2", "0", "2", "3">>), Txt(<<"$", "1", ",", "2", "0", "0", ".", "5", "0">>),
      Txt(<<"2", "0", "2", "4", "-", "0", "3", "-", "0", "4">>), Txt(<<"x">>)>>,
    <<Txt(<<"B", "o", "b">>), Txt(<<"7">>), NaN, Txt(<<"1", "2", "/", "2", "5", "/", "2", "0", "2", "3">>), Txt(<<"-", "5", "0">>),
      Txt(<<"2", "0", "2", "4", "-", "1", "2", "-", "3", "1">>), NaN>>,
    <<NaN, Txt(<<"1", "0", "0">>), Txt(<<"R", "2">>), Txt(<<"2", "0", "2", "3", "-", "0", "2", "-", "0", "1", " ", "1", "0", ":", "0", "0", ":", "0", "0">>), Txt(<<"3">>),
      Txt(<<"2", "0", "2", "4", "-", "0", "3", "-", "0", "4">>), Txt(<<"x">>)>>,
    <<Txt(<<" ">>), NaN, NaN, NaN, Txt(<<"a", "b", "c">>), NaN, NaN>>,
    <<Txt(<<"C", "y">>), NaN, NaN, TxtParsed(<<"1", ".", "2", ".", "2", "3">>, Date(2023, 2, 1)), NaN,
      Txt(<<"n", "/", "a">>), Txt(<<>>)>>,
    <<Txt(<<>>), Txt(<<"8">>), Txt(<<"R", "4">>), Txt(<<"n", "/", "a">>), Txt(<<"-", "0", ".", "0", "0", "1">>),
      Txt(<<"2", "0", "2", "4", "-", "1", "2", "-", "3", "1">>), Txt(<<"x">>)>> }

RECURSIVE RowSeqs(_)
RowSeqs(n) ==
    IF n = 0 THEN {<<>>}
    ELSE LET shorter == RowSeqs(n - 1)
         IN  shorter \cup {Append(r, k) : r \in {u \in shorter : Len(u) = n - 1},
                                          k \in RowKinds}

\* the readers give no rows to a table without columns
Table(layout, kinds) ==
    [columns |-> [j \in 1..Len(layout) |-> Headers[layout[j]]],
     rows    |-> IF layout = <<>> THEN <<>>
                 ELSE [i \in 1..Len(kinds) |->
                          [j \in 1..Len(layout) |-> kinds[i][layout[j]]]]]

\* what the reader would make of the upload
PrimaryName == <<"a", ".", "c", "s", "v">>

\* what the reader would make of the upload: every table under the primary
\* name, the tables of at most one row under every name
Files ==
    {[name |-> PrimaryName, table |-> Table(l, r)] :
        l \in Layouts, r \in RowSeqs(MaxRows)}
    \cup {[name |-> n, table |-> Table(l, r)] :
        n \in FileNames, l \in Layouts, r \in RowSeqs(1)}

AmountAlphabet == {"0", "1", "2", ".", "-", "$", ",", "e", " "}

AmountSamples == {
    <<"$", "1", ",", "2", "0", "0", ".", "5", "0">>, <<"-", "5", "0">>, <<"a", "b", "c">>, <<"1", "2", ".", "5", "0">>, <<"-", "5", "0", ".", "0", "0">>, <<"i", "n", "f">>, <<"-", "i", "n", "f">>, <<"I", "n", "f", "i", "n", "i", "t", "y">>,
    <<"-", "n", "a", "n">>, <<"+", "n", "a", "n">>, <<"N", "a", "N">>, <<"1", "e", "4", "0", "0">>, <<"1", "e", "5">>, <<"-", "1", "e", "-", "3">>, <<"-", "0", ".", "0", "0", "1">>, <<"0", ".", "1", "2", "5">>, <<"0", ".", "3", "7", "5">>,
    <<"9", ".", "9", "9", "6">>, <<" ", "£", "3", " ">>, <<"€", " ", "4", ".", "5">>, <<"1", ".", "2", ".", "3">>, <<"-", "-", "1">>, <<"-", " ", "1">>}

AmountCells ==
    {NaN} \cup {Txt(t) : t \in AmountSamples \cup TextsUpTo(AmountAlphabet, MaxAmountLen)}

DateTokens == {<<"1">>, <<"0", "1">>, <<"0", "2">>, <<"1", "2">>, <<"1", "3">>, <<"2", "9">>, <<"3", "1">>, <<"3", "2">>, <<"2", "0", "2", "3">>, <<"2", "0", "2", "4">>,
               <<"0", "9", "9", "9">>, <<"F", "e", "b">>}

DateSeparators == {"/", "-", " "}

DateSuffixes == {<<>>, <<" ", "1", "0", ":", "0", "0", ":", "0", "0">>}

DateSamples == {<<>>, <<" ">>, <<"a", "b", "c">>, <<" ", "1", "/", "0", "2", "/", "2", "0", "2", "3">>, <<"0", "1", "/", "0", "2", "/", "2", "0", "2", "3", " ">>, <<"0", "1", "/", "0", "2", "/", "2", "3">>,
                <<"1", " ", "F", "e", "b", "r", "u", "a", "r", "y", " ", "2", "0", "2", "3">>, <<"2", "0", "2", "3", "-", "0", "2", "-", "0", "1", "T", "1", "0", ":", "0", "0", ":", "0", "0">>, <<"2", "0", "2", "3", "-", "0", "2", "-", "0", "1", " ", "1", "0", ":", "0", "0", ":", "6", "0">>}

DateTexts ==
    DateSamples \cup
    {a \o <<s>> \o b \o <<s>> \o c \o x :
        a \in DateTokens, b \in DateTokens, c \in DateTokens,
        s \in DateSeparators, x \in DateSuffixes}

FallbackResults == {NaT, Date(2023, 7, 9)}

DateCells ==
    {NaN} \cup {TxtParsed(t, d) : t \in DateTexts, d \in FallbackResults}

(***************************************************************************)
(* The Streamlit script: an upload, the call of process_file, the file     *)
(* taken away again.                                                       *)
(***************************************************************************)
NoFile == [name |-> <<>>, table |-> [columns |-> <<>>, rows |-> <<>>]]

NoResult == Failure("", <<>>, <<>>)

Init ==
    /\ pc = "idle"
    /\ uploaded_file = NoFile
    /\ processed_df = NoResult
    /\ padYear \in BOOLEAN
    /\ amountVal = NaN
    /\ balance = <<>>
    /\ balance2 = <<>>
    /\ txType = ""
    /\ dateVal = NaN
    /\ docDate = <<>>

Upload ==
    /\ pc = "idle"
    /\ \E f \in Files : uploaded_file' = f
    /\ pc' = "uploaded"
    /\ UNCHANGED <<processed_df, padYear, amountVal, balance, balance2, txType,
                   dateVal, docDate>>

Process ==
    /\ pc = "uploaded"
    /\ processed_df' = process_file(uploaded_file)
    /\ pc' = "done"
    /\ UNCHANGED <<uploaded_file, padYear, amountVal, balance, balance2, txType,
                   dateVal, docDate>>

Clear ==
    /\ pc = "done"
    /\ uploaded_file' = NoFile
    /\ processed_df' = NoResult
    /\ pc' = "idle"
    /\ UNCHANGED <<padYear, amountVal, balance, balance2, txType, dateVal, docDate>>

Next == Upload \/ Process \/ Clear

Spec == Init /\ [][Next]_vars

(***************************************************************************)
(* format_amount and determine_transaction_type on their own: every amount *)
(* cell is normalised, classified, and normalised once more.               *)
(***************************************************************************)
InitAmount ==
    /\ pc = "start"
    /\ uploaded_file = NoFile
    /\ processed_df = NoResult
    /\ padYear = TRUE
    /\ amountVal \in AmountCells
    /\ balance = <<>>
    /\ balance2 = <<>>
    /\ txType = ""
    /\ dateVal = NaN
    /\ docDate = <<>>

FormatAmount ==
    /\ pc = "start"
    /\ balance' = format_amount(amountVal)
    /\ pc' = "formatted"
    /\ UNCHANGED <<uploaded_file, processed_df, padYear, amountVal, balance2, txType,
                   dateVal, docDate>>

Classify ==
    /\ pc = "formatted"
    /\ txType' = determine_transaction_type(balance)
    /\ pc' = "classified"
    /\ UNCHANGED <<uploaded_file, processed_df, padYear, amountVal, balance, balance2,
                   dateVal, docDate>>

FormatAgain ==
    /\ pc = "classified"
    /\ balance2' = format_amount(Txt(balance))
    /\ pc' = "done"
    /\ UNCHANGED <<uploaded_file, processed_df, padYear, amountVal, balance, txType,
                   dateVal, docDate>>

NextAmount == FormatAmount \/ Classify \/ FormatAgain

SpecAmount == InitAmount /\ [][NextAmount]_vars

(***************************************************************************)
(* format_date on its own.                                                 *)
(***************************************************************************)
InitDate ==
    /\ pc = "start"
    /\ uploaded_file = NoFile
    /\ processed_df = NoResult
    /\ padYear \in BOOLEAN
    /\ amountVal = NaN
    /\ balance = <<>>
    /\ balance2 = <<>>
    /\ txType = ""
    /\ dateVal \in DateCells
    /\ docDate = <<>>

FormatDate ==
    /\ pc = "start"
    /\ docDate' = format_date(dateVal)
    /\ pc' = "done"
    /\ UNCHANGED <<uploaded_file, processed_df, padYear, amountVal, balance, balance2,
                   txType, dateVal>>

NextDate == FormatDate

SpecDate == InitDate /\ [][NextDate]_vars

(***************************************************************************)
(* Vocabulary of the properties.                                           *)
(***************************************************************************)
AliasOf(key) ==
    CASE key = "customer"     -> <<"c", "u", "s", "t", "o", "m", "e", "r">>
      [] key = "order_number" -> <<"o", "r", "d", "e", "r", " ", "n", "b", "r", ".">>
      [] key = "reference"    -> <<"r", "e", "f", "e", "r", "e", "n", "c", "e", " ", "n", "b", "r", ".">>
      [] key = "date"         -> <<"d", "a", "t", "e">>
      [] key = "amount"       -> <<"a", "m", "o", "u", "n", "t">>

\* the positions of the headers that normalise to the alias of the key
HeadersFor(columns, key) ==
    {j \in 1..Len(columns) : Strip(Lower(columns[j])) = AliasOf(key)}

Unresolved(columns) == {k \in {RequiredKeys[i] : i \in 1..5} : HeadersFor(columns, k) = {}}

Min(S) == CHOOSE x \in S : \A y \in S : x <= y

Max(S) == CHOOSE x \in S : \A y \in S : x >= y

Blank(cell) == cell.na \/ \A i \in 1..Len(cell.text) : cell.text[i] \in Whitespace

SupportedName(name) ==
    \E ext \in {ExtCsv, ExtXls, ExtXlsx} : EndsWith(Lower(name), ext)

Done == pc = "done"

InputTable == uploaded_file.table

Returned == Done /\ processed_df.returned = "DataFrame"

Out == processed_df.frame.data

\* the cell of input row i under the header at position j
CellAt(i, j) == InputTable.rows[i][j]

\* the input rows with a customer that is not blank, in order
NonBlankRows ==
    SelectSeq([i \in 1..Len(InputTable.rows) |-> i],
              LAMBDA i : ~Blank(CellAt(i, Max(HeadersFor(InputTable.columns, "customer")))))

\* -?\d+\.\d{2}
MatchesBalancePattern(t) ==
    LET u == IF t /= <<>> /\ t[1] = "-" THEN Tail(t) ELSE t
    IN  /\ Len(u) >= 4
        /\ u[Len(u) - 2] = "."
        /\ \A i \in 1..Len(u) : i /= Len(u) - 2 => IsDigit(u[i])

\* the cleaned text of an amount cell
Cleaned(val) ==
    Strip(SelectSeq(Str(val), LAMBDA c : c \notin {"$", ",", "£", "€"}))

\* the balance text parses to a number strictly below zero
StrictlyNegative(t) ==
    LET f == ParseFloat(t)
    IN  \/ f.kind = "inf" /\ f.neg
        \/ f.kind = "num" /\ f.neg /\ ~IsZeroDigits(f.digits)

\* C1: every Document Balance matches -?\d+\.\d{2}, and is exactly "0.00" when
\* the cleaned text is empty, is "nan" in any case, or does not parse.
C1_BalancePattern ==
    pc /= "start" =>
        /\ MatchesBalancePattern(balance)
        /\ (\/ Cleaned(amountVal) = <<>>
            \/ Lower(Cleaned(amountVal)) = <<"n", "a", "n">>
            \/ ParseFloat(Cleaned(amountVal)).kind = "error") => balance = ZeroBalance

\* C2: column resolution is all-or-nothing: with every key resolved the output
\* is built; otherwise MissingColumns lists every unresolved key, in key order,
\* nothing is returned and no transform or filter step runs; a table missing
\* only Date reports exactly <<"date">>.
C2_AllOrNothing ==
    (Done /\ SupportedName(uploaded_file.name) /\ ~IsEmpty(InputTable)) =>
        LET unresolved == Unresolved(InputTable.columns)
        IN  /\ unresolved = {} =>
                /\ processed_df.returned = "DataFrame"
                /\ processed_df.error = ""
            /\ unresolved /= {} =>
                /\ processed_df.error = "MissingColumns"
                /\ processed_df.missing = SelectSeq(RequiredKeys, LAMBDA k : k \in unresolved)
                /\ processed_df.returned = "None"
                /\ processed_df.frame = NoFrame
                /\ \A i \in 1..Len(processed_df.steps) :
                      processed_df.steps[i] \notin {"transform", "filter", "reorder"}
            /\ unresolved = {"date"} => processed_df.missing = <<"date">>

C2_Witness ==
    /\ Done
    /\ processed_df.error = "MissingColumns"
    /\ Len(processed_df.missing) >= 2
    /\ Len(InputTable.columns) >= 1

\* C3: Transaction Type is CRD exactly when the Document Balance parses to a
\* number strictly below zero, and is never anything but INV or CRD.
C3_CrdIffNegative ==
    pc \in {"classified", "done"} =>
        /\ txType \in {"INV", "CRD"}
        /\ txType = "CRD" <=> StrictlyNegative(balance)

\* C4: every returned row has a Debtor Reference that is present and not blank
\* and a Document Number that is not blank; no input row with a blank Customer
\* is in the output.
C4_NoBlankDebtor ==
    Returned =>
        /\ \A i \in 1..Len(Out) :
              /\ ~Blank(Out[i]["Debtor Reference"])
              /\ \E k \in 1..Len(Out[i]["Document Number"]) :
                    Out[i]["Document Number"][k] \notin Whitespace
        /\ Len(Out) <= Len(NonBlankRows)

C4_Witness ==
    /\ Returned
    /\ Len(Out) >= 1
    /\ \E i \in 1..Len(InputTable.rows) :
          LET c == CellAt(i, Max(HeadersFor(InputTable.columns, "customer")))
          IN  ~c.na /\ Blank(c)

DateTakenFrom(j) ==
    /\ Len(Out) = Len(NonBlankRows)
    /\ \A i \in 1..Len(Out) :
          Out[i]["Document Date"] = format_date(CellAt(NonBlankRows[i], j))

\* C6 as stated: of several headers that normalise to one alias, the first
\* from the left is bound and the output is computed from it.
C6_FirstMatchWins ==
    Returned =>
        /\ \A k \in {RequiredKeys[i] : i \in 1..5} :
              ResolveColumns(InputTable.columns)[k] =
                  InputTable.columns[Min(HeadersFor(InputTable.columns, k))]
        /\ DateTakenFrom(Min(HeadersFor(InputTable.columns, "date")))

\* C6 as amended: of several headers that normalise to one alias, the last
\* from the left is bound (each later match overwrites the earlier one) and
\* the output is computed from that last column.
C6_LastMatchWins ==
    Returned =>
        /\ \A k \in {RequiredKeys[i] : i \in 1..5} :
              ResolveColumns(InputTable.columns)[k] =
                  InputTable.columns[Max(HeadersFor(InputTable.columns, k))]
        /\ DateTakenFrom(Max(HeadersFor(InputTable.columns, "date")))

C6_Witness ==
    /\ Returned
    /\ Cardinality(HeadersFor(InputTable.columns, "date")) >= 2
    /\ \E i \in 1..Len(Out) :
          Out[i]["Document Date"] /=
              format_date(CellAt(NonBlankRows[i], Min(HeadersFor(InputTable.columns, "date"))))

\* the output row that process_file owes to input row i
RowOf(i) ==
    LET cell(k) == CellAt(i, Max(HeadersFor(InputTable.columns, k)))
    IN  [c \in {OutputColumns[j] : j \in 1..5} |->
            CASE c = "Debtor Reference" -> cell("customer")
              [] c = "Transaction Type" ->
                    determine_transaction_type(format_amount(cell("amount")))
              [] c = "Document Number"  ->
                    create_document_number(cell("order_number"), cell("reference"))
              [] c = "Document Date"    -> format_date(cell("date"))
              [] c = "Document Balance" -> format_amount(cell("amount"))]

\* C7: the output is the input rows with a customer that is not blank, in
\* their order, numbered from 0 without gaps, each output row made of the
\* five fields of one and the same input row, under exactly the five columns
\* in the fixed order.
C7_OrderPreservingRows ==
    Returned =>
        /\ processed_df.frame.columns = OutputColumns
        /\ Len(Out) = Len(NonBlankRows)
        /\ processed_df.frame.index = [i \in 1..Len(Out) |-> i - 1]
        /\ \A i \in 1..Len(Out) : Out[i] = RowOf(NonBlankRows[i])

C7_Witness ==
    /\ Returned
    /\ Len(InputTable.rows) = 2
    /\ Len(Out) = 1
    /\ NonBlankRows = <<2>>
    /\ RowOf(1) /= RowOf(2)

\* the text of a cell of the document number: empty when the cell is missing
TextOrEmpty(cell) == IF cell.na THEN <<>> ELSE cell.text

\* C8: every Document Number is "O_" + order + "_" + reference with a missing
\* cell read as the empty text, so it is at least "O__" and never blank, and
\* the rows dropped are exactly the rows with a blank Customer.
C8_DocumentNumber ==
    Returned =>
        /\ Len(Out) = Len(NonBlankRows)
        /\ \A i \in 1..Len(Out) :
              LET src == NonBlankRows[i]
                  ord == CellAt(src, Max(HeadersFor(InputTable.columns, "order_number")))
                  ref == CellAt(src, Max(HeadersFor(InputTable.columns, "reference")))
                  dn  == Out[i]["Document Number"]
              IN  /\ dn = <<"O", "_">> \o TextOrEmpty(ord) \o <<"_">> \o TextOrEmpty(ref)
                  /\ Len(dn) >= 3
                  /\ Strip(dn) /= <<>>
                  /\ Out[i]["Debtor Reference"] = CellAt(src, Max(HeadersFor(InputTable.columns, "customer")))

C8_Witness ==
    /\ Returned
    /\ Len(Out) < Len(InputTable.rows)
    /\ \E i \in 1..Len(Out) : Out[i]["Document Number"] = <<"O", "_", "_">>

\* C9: format_amount is idempotent: normalising a Document Balance again
\* gives the same text.
C9_Idempotent ==
    pc = "done" => balance2 = balance

\* the text has the shape DD/MM/YYYY of a calendar date
IsDayFirstDate(t) ==
    /\ Len(t) = 10
    /\ t[3] = "/" /\ t[6] = "/"
    /\ \A i \in {1, 2, 4, 5, 7, 8, 9, 10} : IsDigit(t[i])
    /\ ToNat(SubSeq(t, 7, 10)) >= 1
    /\ ToNat(SubSeq(t, 4, 5)) \in 1..12
    /\ ToNat(SubSeq(t, 1, 2)) \in
          1..DaysInMonth(ToNat(SubSeq(t, 7, 10)), ToNat(SubSeq(t, 4, 5)))

\* C10: format_date is total; a missing or blank cell gives the empty text;
\* otherwise the first explicit format that parses decides the result, which
\* is a zero-padded DD/MM/YYYY text, so a text already in that form comes back
\* unchanged and a text that DD/MM/YYYY parses is read day first; when
\* neither a format nor the fallback parses, the text of the
\* value comes back unchanged.
C10_FormatDate ==
    (pc = "done") =>
        /\ (dateVal.na \/ Blank(dateVal)) => docDate = <<>>
        /\ (~dateVal.na /\ ~Blank(dateVal)) =>
              /\ FirstFormat(dateVal.text) /= 0 => IsDayFirstDate(docDate)
              /\ IsDayFirstDate(dateVal.text) => docDate = dateVal.text
              /\ strptime(dateVal.text, DateFormats[1]).ok =>
                    LET d == strptime(dateVal.text, DateFormats[1])
                    IN  docDate = Pad2(d.day) \o <<"/">> \o Pad2(d.month)
                                  \o <<"/">> \o Pad4(d.year)
              /\ (FirstFormat(dateVal.text) = 0 /\ dateVal.parsed = NaT) =>
                    docDate = dateVal.text

====
